---------------------------- MODULE Spec2Model ----------------------------
(***************************************************************************)
(* Split Markdown / WYSIWYG editor of sodahub99k/lacto: the scroll         *)
(* synchronisation controller (lock, frame-coalesced writes, idle snap)    *)
(* and the edit propagation controller (debounce, echo suppression) of     *)
(* InnerEditor, with the pure stop mapper they call.                       *)
(*                                                                         *)
(* Numbers of the program are JavaScript doubles; they are modelled as     *)
(* exact rationals <<n, d>> (d > 0, lowest terms).  Instants are in        *)
(* milliseconds and are kept relative to the current instant: a stored     *)
(* instant is its distance from performance.now(), which therefore reads   *)
(* 0, and the passing of time (Tick) moves every stored instant back.      *)
(*                                                                         *)
(* The environment: a pane keeps its scroll offset at a whole pixel within *)
(* its scroll range; a write that moves a pane owes that pane one scroll   *)
(* event; a due timer, a requested frame and an owed scroll event wait at  *)
(* most MaxLate ticks; microtasks run before any other task.  The engine   *)
(* holds the document a text denotes (texts that differ in trailing blank  *)
(* lines denote the same document) and reports a change of its document,   *)
(* with the document's text, before the operation that changed it returns. *)
(***************************************************************************)
EXTENDS Integers, Sequences, FiniteSets, TLC

(***************************************************************************)
(* Exact rational arithmetic.                                              *)
(***************************************************************************)
Abs(n) == IF n < 0 THEN -n ELSE n

RECURSIVE Gcd(_, _)
Gcd(a, b) == IF b = 0 THEN a ELSE Gcd(b, a % b)

RNorm(n, d) ==
    LET g == Gcd(Abs(n), Abs(d))
        s == IF d < 0 THEN -1 ELSE 1
    IN  IF g = 0 THEN <<0, 1>> ELSE <<(s * n) \div g, (s * d) \div g>>

R(n) == <<n, 1>>

RAdd(x, y) == RNorm(x[1] * y[2] + y[1] * x[2], x[2] * y[2])

RSub(x, y) == RNorm(x[1] * y[2] - y[1] * x[2], x[2] * y[2])

RMul(x, y) == RNorm(x[1] * y[1], x[2] * y[2])

RDiv(x, y) == RNorm(x[1] * y[2], x[2] * y[1])

RLt(x, y) == x[1] * y[2] < y[1] * x[2]

RLe(x, y) == x[1] * y[2] <= y[1] * x[2]

RAbs(x) == <<Abs(x[1]), x[2]>>

RMin(x, y) == IF RLe(x, y) THEN x ELSE y

RMax(x, y) == IF RLe(x, y) THEN y ELSE x

RFloor(x) == x[1] \div x[2]

\* the nearest integer
RRound(x) == (2 * x[1] + x[2]) \div (2 * x[2])

Half == <<1, 2>>

(***************************************************************************)
(* Pure helpers of the component file.                                     *)
(***************************************************************************)
clamp(value, min, max) == RMin(max, RMax(min, value))

easeOutCubic(t) ==
    LET u == RSub(R(1), t)
    IN  RSub(R(1), RMul(u, RMul(u, u)))

\* stops[i] of a 0-based JavaScript array held as a 1-based sequence
At(stops, i) == stops[i + 1]

\* a resampling that keeps the first nextLen entries of a longer sequence
resampleStops_truncates(stops, nextLen) ==
    IF nextLen <= 0 THEN <<>>
    ELSE IF Len(stops) >= nextLen THEN SubSeq(stops, 1, nextLen)
    ELSE IF Len(stops) = 0 THEN [j \in 1..nextLen |-> R(0)]
    ELSE [j \in 1..nextLen |-> IF j <= Len(stops) THEN stops[j]
                                                  ELSE stops[Len(stops)]]

resampleStops(stops, nextLen) ==
    IF nextLen <= 0 THEN <<>>
    ELSE IF Len(stops) = nextLen THEN stops
    ELSE IF Len(stops) = 0 THEN [j \in 1..nextLen |-> R(0)]
    ELSE IF Len(stops) = 1 THEN [j \in 1..nextLen |-> stops[1]]
    ELSE LET maxIndex == Len(stops) - 1
         IN  [jj \in 1..nextLen |->
                LET j == jj - 1
                    f == IF nextLen = 1 THEN R(0) ELSE RNorm(j, nextLen - 1)
                    x == RMul(f, R(maxIndex))
                    i == RFloor(x)
                    t == RSub(x, R(i))
                    a == IF i <= maxIndex THEN At(stops, i)
                                          ELSE At(stops, maxIndex)
                    k == IF i + 1 < maxIndex THEN i + 1 ELSE maxIndex
                    b == At(stops, k)
                IN  RAdd(a, RMul(RSub(b, a), t))]

\* a scan that never leaves the first segment
SegmentIndex_stuck(fStops, len, top, i) == i

\* a scan that may pass the last segment
RECURSIVE SegmentIndex_offByOne(_, _, _, _)
SegmentIndex_offByOne(fStops, len, top, i) ==
    IF i < len - 1 /\ RLt(At(fStops, i + 1), top)
    THEN SegmentIndex_offByOne(fStops, len, top, i + 1)
    ELSE i

\* the scan `while (i < len - 2 && top > fStops[i + 1]) i++`
RECURSIVE SegmentIndex(_, _, _, _)
SegmentIndex(fStops, len, top, i) ==
    IF i < len - 2 /\ RLt(At(fStops, i + 1), top)
    THEN SegmentIndex(fStops, len, top, i + 1)
    ELSE i

\* a sequence that is kept whatever its length
substituteStops_keeps(stops, max) == stops

\* `stops.length >= 2 ? stops : [0, max]`
substituteStops(stops, max) == IF Len(stops) >= 2 THEN stops ELSE <<R(0), max>>

\* Math.max(2, Math.min(from.length, to.length))
commonLen(from, to) ==
    LET m == IF Len(from) < Len(to) THEN Len(from) ELSE Len(to)
    IN  IF m < 2 THEN 2 ELSE m

\* the mapper with the fraction of a segment measured from its far end
mapScrollTop_inverted(fromTop, fromStops, toStops, fromMax, toMax) ==
    IF RLe(fromMax, R(0)) \/ RLe(toMax, R(0))
    THEN LET ratio == IF RLe(fromMax, R(0)) THEN R(0)
                      ELSE clamp(RDiv(fromTop, fromMax), R(0), R(1))
         IN  RMul(ratio, toMax)
    ELSE LET from == substituteStops(fromStops, fromMax)
             to == substituteStops(toStops, toMax)
             len == commonLen(from, to)
             fStops == resampleStops(from, len)
             tStops == resampleStops(to, len)
             top == clamp(fromTop, R(0), fromMax)
             i == SegmentIndex(fStops, len, top, 0)
             a == At(fStops, i)
             b == At(fStops, i + 1)
             t == IF b = a THEN R(0)
                  ELSE clamp(RDiv(RSub(b, top), RSub(b, a)), R(0), R(1))
         IN  RAdd(At(tStops, i),
                  RMul(RSub(At(tStops, i + 1), At(tStops, i)), t))

\* the mapper without its first branch
mapScrollTop_noDegenerate(fromTop, fromStops, toStops, fromMax, toMax) ==
    LET from == substituteStops(fromStops, fromMax)
        to == substituteStops(toStops, toMax)
        len == commonLen(from, to)
        fStops == resampleStops(from, len)
        tStops == resampleStops(to, len)
        top == clamp(fromTop, R(0), fromMax)
        i == SegmentIndex(fStops, len, top, 0)
        a == At(fStops, i)
        b == At(fStops, i + 1)
        t == IF b = a THEN R(0)
             ELSE clamp(RDiv(RSub(top, a), RSub(b, a)), R(0), R(1))
    IN  RAdd(At(tStops, i),
             RMul(RSub(At(tStops, i + 1), At(tStops, i)), t))

mapScrollTop(fromTop, fromStops, toStops, fromMax, toMax) ==
    IF RLe(fromMax, R(0)) \/ RLe(toMax, R(0))
    THEN LET ratio == IF RLe(fromMax, R(0)) THEN R(0)
                      ELSE clamp(RDiv(fromTop, fromMax), R(0), R(1))
         IN  RMul(ratio, toMax)
    ELSE LET from == substituteStops(fromStops, fromMax)
             to == substituteStops(toStops, toMax)
             len == commonLen(from, to)
             fStops == resampleStops(from, len)
             tStops == resampleStops(to, len)
             top == clamp(fromTop, R(0), fromMax)
             i == SegmentIndex(fStops, len, top, 0)
             a == At(fStops, i)
             b == At(fStops, i + 1)
             t == IF b = a THEN R(0)
                  ELSE clamp(RDiv(RSub(top, a), RSub(b, a)), R(0), R(1))
         IN  RAdd(At(tStops, i),
                  RMul(RSub(At(tStops, i + 1), At(tStops, i)), t))

(***************************************************************************)
(* Bounds of the model and constants of the program.                       *)
(***************************************************************************)
TickMs == 40

MaxInputs == 2

\* how many ticks a due timer, a requested frame or a scroll event may wait
MaxLate == 1

\* how many ticks a scroll event may wait where its lateness is what is
\* examined: more than the longest lock window
MaxEchoLate == 10

\* performance.now(), the origin of the relative instants
now == 0

\* debounceMs = 250 (default prop)
DebounceMs == 250

\* acquireLock("source" | "editor", 260) of the scroll handlers
ScrollLockMs == 260

\* acquireLock(who, 360) of the snap timer callback
SnapLockMs == 360

\* window.setTimeout(..., 120) of scheduleSnap
SnapIdleMs == 120

\* smoothScrollTo(el, target, ref, 160)
SnapDurationMs == 160

\* getLineHeightPx: 20 when the computed line height is not a number
LineHeightPx == 20

Panes == {"source", "editor"}

Other(p) == IF p = "source" THEN "editor" ELSE "source"

NoId == 0

NoEcho == -1

(***************************************************************************)
(* Documents.  A Markdown text is the sequence of its lines, each line     *)
(* kept as what the extractors test of it: "H" a heading line              *)
(* (/^#{1,6}\s+/), "B" a blank line (trim() = ""), "T" any other line.     *)
(***************************************************************************)
Docs == { <<"H", "B", "T", "B">>, <<"H", "B", "H">>, <<"T">> }

InitialDocs == { <<"H", "B", "T", "B">> }

\* The rendering engine keeps a parsed document; the text it emits for it
\* is the text without its trailing blank lines.
RECURSIVE Serialize(_)
Serialize(d) ==
    IF Len(d) > 0 /\ d[Len(d)] = "B" THEN Serialize(SubSeq(d, 1, Len(d) - 1))
    ELSE d

\* The engine's top-level nodes: one per non-blank line, a heading or a block.
NodeKinds(d) ==
    LET nb == SelectSeq([i \in 1..Len(d) |-> <<i, d[i]>>], LAMBDA e : e[2] # "B")
    IN  [k \in 1..Len(nb) |-> IF nb[k][2] = "H" THEN "heading" ELSE "block"]

\* coords.top - editorRect.top + editorScrollTop of node k: its offset in the
\* rendered content.
NodeTop(k) == R((k - 1) * 60)

\* Pane geometries (scrollHeight - clientHeight of each pane).
Geoms == { [source |-> 60, editor |-> 100],
           [source |-> 40, editor |-> 0] }

InitialGeom == [source |-> 60, editor |-> 100]

(***************************************************************************)
(* Stop extraction.                                                        *)
(***************************************************************************)
extractHeadingLineStarts(md) ==
    SelectSeq([i \in 1..Len(md) |-> i - 1], LAMBDA i : md[i + 1] = "H")

extractBlockLineStarts(md) ==
    <<0>> \o SelectSeq([i \in 1..(Len(md) - 1) |-> i],
                       LAMBDA i : md[i] = "B" /\ md[i + 1] # "B")

\* .reduce: keep x when it is more than 0.5 from the last kept entry
RECURSIVE Dedupe(_, _)
Dedupe(acc, xs) ==
    IF xs = <<>> THEN acc
    ELSE LET x == Head(xs)
         IN  IF acc = <<>> \/ RLt(Half, RAbs(RSub(x, acc[Len(acc)])))
             THEN Dedupe(Append(acc, x), Tail(xs))
             ELSE Dedupe(acc, Tail(xs))

\* .filter((x, idx, arr) => idx === 0 || x >= arr[idx - 1])
FilterNonDecreasing(arr) ==
    LET keep == { i \in 1..Len(arr) : i = 1 \/ RLe(arr[i - 1], arr[i]) }
        idx == SelectSeq([i \in 1..Len(arr) |-> i], LAMBDA i : i \in keep)
    IN  [k \in 1..Len(idx) |-> arr[idx[k]]]

\* .sort((a, b) => a - b)
RECURSIVE Insert(_, _)
Insert(x, sorted) ==
    IF sorted = <<>> THEN <<x>>
    ELSE IF RLe(x, Head(sorted)) THEN <<x>> \o sorted
    ELSE <<Head(sorted)>> \o Insert(x, Tail(sorted))

RECURSIVE SortAsc(_)
SortAsc(xs) == IF xs = <<>> THEN <<>> ELSE Insert(Head(xs), SortAsc(Tail(xs)))

\* the source stops without the closing entry sourceMax
SourceStopsAt_noBracket(md, sourceMax, lineHeight) ==
    LET headingLines == extractHeadingLineStarts(md)
        blockLines == extractBlockLineStarts(md)
        sourceLines == IF Len(headingLines) >= 2 THEN headingLines ELSE blockLines
        mapped == [i \in 1..Len(sourceLines) |->
                     clamp(RMul(R(sourceLines[i]), lineHeight), R(0), sourceMax)]
    IN  Dedupe(<<>>, FilterNonDecreasing(<<R(0)>> \o mapped))

\* sourceStops of recomputeStops, the line height read being lineHeight
SourceStopsAt(md, sourceMax, lineHeight) ==
    LET headingLines == extractHeadingLineStarts(md)
        blockLines == extractBlockLineStarts(md)
        sourceLines == IF Len(headingLines) >= 2 THEN headingLines ELSE blockLines
        mapped == [i \in 1..Len(sourceLines) |->
                     clamp(RMul(R(sourceLines[i]), lineHeight), R(0), sourceMax)]
    IN  Dedupe(<<>>, FilterNonDecreasing(<<R(0)>> \o mapped \o <<sourceMax>>))

SourceStopsOf(md, sourceMax) == SourceStopsAt(md, sourceMax, R(LineHeightPx))

\* editorStops of recomputeStops, were a node whose query failed to
\* contribute all the same
EditorStopsAt_keepsFailed(doc, editorMax, failed, tops) ==
    LET kinds == NodeKinds(doc)
        all == [k \in 1..Len(kinds) |-> k]
        allHeadings == SelectSeq(all, LAMBDA k : kinds[k] = "heading")
        editorHeadingStops ==
            [i \in 1..Len(allHeadings) |->
                clamp(tops[allHeadings[i]], R(0), editorMax)]
        editorBlockStops ==
            [i \in 1..Len(all) |-> clamp(tops[all[i]], R(0), editorMax)]
        editorAnchorsRaw == IF Len(editorHeadingStops) >= 2 THEN editorHeadingStops
                            ELSE editorBlockStops
    IN  Dedupe(<<>>, SortAsc(<<R(0)>> \o editorAnchorsRaw \o <<editorMax>>))

\* editorStops of recomputeStops, node k being measured at tops[k];
\* `failed`: the nodes whose coordsAtPos throws in this pass
EditorStopsAt(doc, editorMax, failed, tops) ==
    LET kinds == NodeKinds(doc)
        ok == SelectSeq([k \in 1..Len(kinds) |-> k], LAMBDA k : k \notin failed)
        okHeadings == SelectSeq(ok, LAMBDA k : kinds[k] = "heading")
        editorHeadingStops ==
            [i \in 1..Len(okHeadings) |-> clamp(tops[okHeadings[i]], R(0), editorMax)]
        editorBlockStops ==
            [i \in 1..Len(ok) |-> clamp(tops[ok[i]], R(0), editorMax)]
        editorAnchorsRaw == IF Len(editorHeadingStops) >= 2 THEN editorHeadingStops
                            ELSE editorBlockStops
    IN  Dedupe(<<>>, SortAsc(<<R(0)>> \o editorAnchorsRaw \o <<editorMax>>))

EditorStopsOf(doc, editorMax, failed) ==
    EditorStopsAt(doc, editorMax, failed,
                  [k \in 1..Len(NodeKinds(doc)) |-> NodeTop(k)])

(***************************************************************************)
(* State.                                                                  *)
(***************************************************************************)
VARIABLES
    phase,                      \* "mounted" | "unmounted"
    variant,                    \* "plain": components/MilkdownEditor.tsx,
                                \* "snap": the component with the idle snap
    sourceRef,                  \* sourceRef.current is an element
    wysiwygScrollRef,           \* wysiwygScrollRef.current is an element
    editorReady,                \* get() returns the engine handle
    engineDoc,                  \* the text of the engine's document
    scrollMax,                  \* scrollHeight - clientHeight, per pane
    scrollTop,                  \* el.scrollTop, per pane
    echo,                       \* per pane: the ticks a scroll event has waited
                                \* to be dispatched, or NoEcho
    markdown,                   \* the tracked document text (useState)
    markdownRef,
    lastMarkdownFromEditorRef,
    applyingFromSourceRef,
    stopsRef,
    recomputeRafRef,
    syncRafRef,
    pendingScrollsRef,          \* per pane: <<>> or <<target>>
    syncLockRef,                \* "source" | "editor" | "none"
    syncLockUntilRef,
    snapTimerRef,               \* sourceSnapTimerRef / editorSnapTimerRef
    snapAnimRef,                \* sourceSnapAnimRef / editorSnapAnimRef
    debounceTimer,              \* `timer` held by the debounce effect's cleanup
    timers,                     \* pending window.setTimeout callbacks
    rafQueue,                   \* pending requestAnimationFrame callbacks
    microtasks,                 \* pending queueMicrotask callbacks
    inputs,                     \* user inputs so far
    lastOp,                     \* the handler that ran last, and how it ended
    origin,                     \* where the tracked text came from
    burst,                      \* the current burst of source text changes
    recorded                    \* per pane: the targets asked since the last pass

envVars == <<phase, variant, sourceRef, wysiwygScrollRef, editorReady,
             engineDoc, scrollMax, scrollTop, echo>>

editVars == <<markdown, markdownRef, lastMarkdownFromEditorRef,
              applyingFromSourceRef, debounceTimer>>

scrollVars == <<stopsRef, recomputeRafRef, syncRafRef, pendingScrollsRef,
                syncLockRef, syncLockUntilRef, snapTimerRef, snapAnimRef>>

runVars == <<timers, rafQueue, microtasks>>

histVars == <<inputs, lastOp, origin, burst, recorded>>

vars == <<envVars, editVars, scrollVars, runVars, histVars>>

Op(op, who, res) == [op |-> op, who |-> who, res |-> res]

(***************************************************************************)
(* The runtime: timers and animation frames.                               *)
(***************************************************************************)
RafIds(q) == { q[i].id : i \in 1..Len(q) }

\* an id no pending callback has and no slot still holds
FreshRafId(q, held) ==
    CHOOSE n \in 1..(Len(q) + Cardinality(held) + 1) :
        /\ n \notin RafIds(q) \cup held
        /\ \A m \in 1..(n - 1) : m \in RafIds(q) \cup held

HeldRafIds == {recomputeRafRef, syncRafRef, snapAnimRef["source"], snapAnimRef["editor"]}

FreshTimerId(ts, held) ==
    CHOOSE n \in 1..(Cardinality(ts) + Cardinality(held) + 1) :
        /\ n \notin { t.id : t \in ts } \cup held
        /\ \A m \in 1..(n - 1) : m \in { t.id : t \in ts } \cup held

HeldTimerIds == {debounceTimer, snapTimerRef["source"], snapTimerRef["editor"]}

\* `age`: the ticks the callback has waited for its frame
RafCallback(id, kind, who, start, delta, startAt, dur) ==
    [id |-> id, kind |-> kind, who |-> who, start |-> start, delta |-> delta,
     startAt |-> startAt, dur |-> dur, age |-> 0]

PlainCallback(id, kind) == RafCallback(id, kind, "-", R(0), R(0), 0, 0)

\* cancelAnimationFrame(id)
CancelRaf(q, id) == SelectSeq(q, LAMBDA c : c.id # id)

TimerOf(id, kind, who, at, text) ==
    [id |-> id, kind |-> kind, who |-> who, at |-> at, text |-> text]

\* window.clearTimeout(id)
ClearTimer(ts, id) == { t \in ts : t.id # id }

(***************************************************************************)
(* scheduleRecomputeStops, as a function of the queue and the slot.        *)
(***************************************************************************)
\* scheduleRecomputeStops without its early return
scheduleRecomputeStops_always(q, ref, held) ==
    LET id == FreshRafId(q, held)
    IN  [raf |-> Append(q, PlainCallback(id, "recompute")), ref |-> id]

scheduleRecomputeStops(q, ref, held) ==
    IF ref # NoId THEN [raf |-> q, ref |-> ref]
    ELSE LET id == FreshRafId(q, held)
         IN  [raf |-> Append(q, PlainCallback(id, "recompute")), ref |-> id]

(***************************************************************************)
(* The edit propagation controller.                                        *)
(***************************************************************************)
\* the listener without its check of applyingFromSourceRef
ListenerAdopts_ignoresFlag(nextMarkdown, applying, mdRef) ==
    IF nextMarkdown = mdRef THEN FALSE ELSE TRUE

\* the markdownUpdated listener: does it call setMarkdown(nextMarkdown)?
ListenerAdopts(nextMarkdown, applying, mdRef) ==
    IF applying THEN FALSE
    ELSE IF nextMarkdown = mdRef THEN FALSE
    ELSE TRUE

\* the guard without its comparison with lastMarkdownFromEditorRef
EffectSetsTimer_ignoresOrigin(ready, md, lastFromEditor) ==
    IF ~ready THEN FALSE ELSE TRUE

\* the guard of the debounce effect: does it set a timer?
EffectSetsTimer(ready, md, lastFromEditor) ==
    IF ~ready THEN FALSE
    ELSE IF md = lastFromEditor THEN FALSE
    ELSE TRUE

\* an effect that returns no cleanup
EffectCleanup_keepsTimer(ts, slot) == ts

\* the cleanup of the effect's previous run: window.clearTimeout(timer)
EffectCleanup(ts, slot) == ClearTimer(ts, slot)

\* an effect that leaves a pending timer, and its text, in place
DebounceEffect_keepsPending(ts, slot, ready, md, lastFromEditor) ==
    IF \E t \in ts : t.id = slot
    THEN [timers |-> ts, slot |-> slot]
    ELSE IF ready /\ md # lastFromEditor
         THEN LET id == FreshTimerId(ts, HeldTimerIds)
              IN  [timers |-> ts \cup
                        {TimerOf(id, "debounce", "-", now + DebounceMs, md)},
                   slot |-> id]
         ELSE [timers |-> ts, slot |-> NoId]

\* The debounce effect re-run for text md (its previous run's cleanup first).
DebounceEffect(ts, slot, ready, md, lastFromEditor) ==
    LET cleaned == EffectCleanup(ts, slot)
    IN  IF EffectSetsTimer(ready, md, lastFromEditor)
        THEN LET id == FreshTimerId(cleaned, HeldTimerIds)
             IN  [timers |-> cleaned \cup
                       {TimerOf(id, "debounce", "-", now + DebounceMs, md)},
                  slot |-> id]
        ELSE [timers |-> cleaned, slot |-> NoId]

(***************************************************************************)
(* The scroll sync controller.                                             *)
(***************************************************************************)
\* a lock whose window is added to the previous expiry
acquireLock_accumulates(who, ms) ==
    [holder |-> who, until |-> (IF syncLockUntilRef > now THEN syncLockUntilRef ELSE now) + ms]

\* acquireLock: the holder and the expiry it stores
acquireLock(who, ms) == [holder |-> who, until |-> now + ms]

\* the check with its last comparison reversed
isLockedByOther_sameHolder(who) ==
    IF syncLockRef = "none" THEN FALSE
    ELSE IF now > syncLockUntilRef THEN FALSE
    ELSE syncLockRef = who

\* the check without the expiry test
isLockedByOther_noExpiry(who) ==
    IF syncLockRef = "none" THEN FALSE
    ELSE syncLockRef # who

\* the value isLockedByOther(who) returns
isLockedByOther(who) ==
    IF syncLockRef = "none" THEN FALSE
    ELSE IF now > syncLockUntilRef THEN FALSE
    ELSE syncLockRef # who

\* syncLockRef.current after a call of isLockedByOther
LockAfterCheck(who) ==
    IF syncLockRef # "none" /\ now > syncLockUntilRef THEN "none"
    ELSE syncLockRef

\* a buffer that keeps the target it already holds
RecordPending_keepsFirst(pend, key, target) ==
    IF pend[key] = <<>> THEN [pend EXCEPT ![key] = <<target>>] ELSE pend

\* pendingScrollsRef.current[key] = { el, target }
RecordPending(pend, key, target) == [pend EXCEPT ![key] = <<target>>]

\* scheduleScrollTop with the test of syncRafRef reversed
scheduleScrollTop_reversed(key, target, pend, q, ref, held) ==
    LET pend1 == RecordPending(pend, key, target)
    IN  IF ref = NoId THEN [pending |-> pend1, raf |-> q, ref |-> ref]
        ELSE LET id == FreshRafId(q, held)
             IN  [pending |-> pend1,
                  raf |-> Append(q, PlainCallback(id, "sync")),
                  ref |-> id]

scheduleScrollTop(key, target, pend, q, ref, held) ==
    LET pend1 == RecordPending(pend, key, target)
    IN  IF ref # NoId THEN [pending |-> pend1, raf |-> q, ref |-> ref]
        ELSE LET id == FreshRafId(q, held)
             IN  [pending |-> pend1,
                  raf |-> Append(q, PlainCallback(id, "sync")),
                  ref |-> id]

\* el.scrollTop = v: the pane keeps v within its scroll range, at a whole pixel
SetScrollTop(v, max) == R(RRound(clamp(v, R(0), R(max))))

\* `apply`, were it handed the other pane's entry of the buffer
FrameWrite_crossed(p, pend, tops, maxes) ==
    IF pend[Other(p)] = <<>> THEN tops[p]
    ELSE LET next == clamp(pend[Other(p)][1], R(0), R(maxes[p]))
         IN  IF RLt(Half, RAbs(RSub(tops[p], next)))
             THEN SetScrollTop(next, maxes[p])
             ELSE tops[p]

\* `apply` of the frame callback: the pane's scrollTop after it
FrameWrite(p, pend, tops, maxes) ==
    IF pend[p] = <<>> THEN tops[p]
    ELSE LET next == clamp(pend[p][1], R(0), R(maxes[p]))
         IN  IF RLt(Half, RAbs(RSub(tops[p], next)))
             THEN SetScrollTop(next, maxes[p])
             ELSE tops[p]

\* scheduleSnap without the clearTimeout of the pane's earlier timer
scheduleSnap_keepsOld(who, ts, refs) ==
    LET id == FreshTimerId(ts, HeldTimerIds)
    IN  [timers |-> ts \cup {TimerOf(id, "snap", who, now + SnapIdleMs, <<>>)},
         refs |-> [refs EXCEPT ![who] = id]]

scheduleSnap(who, ts, refs) ==
    LET cleared == IF refs[who] # NoId THEN ClearTimer(ts, refs[who]) ELSE ts
        id == FreshTimerId(cleared, HeldTimerIds)
    IN  [timers |-> cleared \cup
              {TimerOf(id, "snap", who, now + SnapIdleMs, <<>>)},
         refs |-> [refs EXCEPT ![who] = id]]

\* smoothScrollTo without the cancelAnimationFrame of the pane's earlier step
smoothScrollTo_noCancel(el, target, q, refs) ==
    LET to == clamp(target, R(0), R(scrollMax[el]))
        start == scrollTop[el]
        delta == RSub(to, start)
    IN  IF RLt(RAbs(delta), Half)
        THEN [raf |-> q, refs |-> [refs EXCEPT ![el] = NoId]]
        ELSE LET id == FreshRafId(q, HeldRafIds)
             IN  [raf |-> Append(q, RafCallback(id, "anim", el, start, delta,
                                                now, SnapDurationMs)),
                  refs |-> [refs EXCEPT ![el] = id]]

\* smoothScrollTo(el, target, cancelRef, 160) on pane el
smoothScrollTo(el, target, q, refs) ==
    LET q1 == IF refs[el] # NoId THEN CancelRaf(q, refs[el]) ELSE q
        to == clamp(target, R(0), R(scrollMax[el]))
        start == scrollTop[el]
        delta == RSub(to, start)
    IN  IF RLt(RAbs(delta), Half)
        THEN [raf |-> q1, refs |-> [refs EXCEPT ![el] = NoId]]
        ELSE LET id == FreshRafId(q1, HeldRafIds \ {refs[el]})
             IN  [raf |-> Append(q1, RafCallback(id, "anim", el, start, delta,
                                                 now, SnapDurationMs)),
                  refs |-> [refs EXCEPT ![el] = id]]

StopsOf(p) == IF p = "source" THEN stopsRef.sourceStops ELSE stopsRef.editorStops

MappedTarget(who, tops) ==
    mapScrollTop(tops[who], StopsOf(who), StopsOf(Other(who)),
                 R(scrollMax[who]), R(scrollMax[Other(who)]))

NoPending == [p \in Panes |-> <<>>]

\* syncSourceToEditor (who = "source") / syncEditorToSource (who = "editor"),
\* the pane's scroll position being tops[who]
ScrollHandler(who, tops) ==
    LET locked == isLockedByOther(who)
        other == Other(who)
    IN  IF locked \/ ~(sourceRef /\ wysiwygScrollRef)
        THEN /\ syncLockRef' = LockAfterCheck(who)
             /\ lastOp' = Op("scroll", who,
                             IF locked THEN "ignored" ELSE "noElement")
             /\ UNCHANGED <<syncLockUntilRef, pendingScrollsRef, syncRafRef,
                            rafQueue, timers, snapTimerRef, recorded>>
        ELSE LET target == MappedTarget(who, tops)
                 lock == acquireLock(who, ScrollLockMs)
                 sched == scheduleScrollTop(other, target, pendingScrollsRef,
                                            rafQueue, syncRafRef, HeldRafIds)
                 snap == IF variant = "snap"
                         THEN scheduleSnap(who, timers, snapTimerRef)
                         ELSE [timers |-> timers, refs |-> snapTimerRef]
             IN  /\ syncLockRef' = lock.holder
                 /\ syncLockUntilRef' = lock.until
                 /\ pendingScrollsRef' = sched.pending
                 /\ rafQueue' = sched.raf
                 /\ syncRafRef' = sched.ref
                 /\ timers' = snap.timers
                 /\ snapTimerRef' = snap.refs
                 /\ recorded' = [recorded EXCEPT ![other] = Append(@, target)]
                 /\ lastOp' = Op("scroll", who,
                                 IF syncLockRef = other THEN "acceptedExpired"
                                 ELSE "accepted")

(***************************************************************************)
(* Initial state: the component has rendered and its mount effects have    *)
(* run (the debounce effect found no handle; the [markdown] effect called  *)
(* scheduleRecomputeStops); the engine is still being created.             *)
(***************************************************************************)
NoBurst == [active |-> FALSE, n |-> 0, lastAt |-> 0, replaces |-> 0,
            clean |-> TRUE, differs |-> FALSE, text |-> <<>>, onTime |-> FALSE]

Init ==
    /\ phase = "mounted"
    /\ variant \in {"plain", "snap"}
    /\ sourceRef = TRUE
    /\ wysiwygScrollRef = TRUE
    /\ editorReady = FALSE
    /\ \E d \in InitialDocs :
          /\ markdown = d
          /\ markdownRef = d
          /\ lastMarkdownFromEditorRef = d
          /\ engineDoc = Serialize(d)
    /\ scrollMax = InitialGeom
    /\ scrollTop = [p \in Panes |-> R(0)]
    /\ echo = [p \in Panes |-> NoEcho]
    /\ applyingFromSourceRef = FALSE
    /\ stopsRef = [sourceStops |-> <<>>, editorStops |-> <<>>]
    /\ recomputeRafRef = 1
    /\ syncRafRef = NoId
    /\ pendingScrollsRef = NoPending
    /\ syncLockRef = "none"
    /\ syncLockUntilRef = 0
    /\ snapTimerRef = [p \in Panes |-> NoId]
    /\ snapAnimRef = [p \in Panes |-> NoId]
    /\ debounceTimer = NoId
    /\ timers = {}
    /\ rafQueue = <<PlainCallback(1, "recompute")>>
    /\ microtasks = <<>>
    /\ inputs = 0
    /\ lastOp = Op("mount", "-", "ok")
    /\ origin = "source"
    /\ burst = NoBurst
    /\ recorded = NoPending

\* Tasks run only when no microtask is pending.
Idle == microtasks = <<>>

Mounted == phase = "mounted"

\* an instant after TickMs more have passed; one further back than floor is
\* not told from floor by any reader of it
Shift(at, floor) == IF at - TickMs < floor THEN floor ELSE at - TickMs

\* Time passes.  A timer is due from distance 0 on, a lock has expired from
\* any negative distance on, an animation is over once it started
\* SnapDurationMs ago, a burst's window is over once its last change is
\* DebounceMs old.  Nothing that is due waits more than MaxLate ticks.
TickWith(echoLate) ==
    /\ Idle
    /\ \A t \in timers : t.at > -(MaxLate * TickMs)
    /\ \A i \in 1..Len(rafQueue) : rafQueue[i].age < MaxLate
    /\ \A p \in Panes : echo[p] < echoLate
    /\ timers' = { [t EXCEPT !.at = @ - TickMs] : t \in timers }
    /\ rafQueue' = [i \in 1..Len(rafQueue) |->
                      [rafQueue[i] EXCEPT !.startAt = Shift(@, -rafQueue[i].dur),
                                          !.age = @ + 1]]
    /\ echo' = [p \in Panes |-> IF echo[p] = NoEcho THEN NoEcho ELSE echo[p] + 1]
    /\ syncLockUntilRef' = Shift(syncLockUntilRef, -TickMs)
    /\ burst' = [burst EXCEPT !.lastAt = Shift(@, -DebounceMs)]
    /\ lastOp' = Op("tick", "-", "ok")
    /\ UNCHANGED <<phase, variant, sourceRef, wysiwygScrollRef, editorReady,
                   engineDoc, scrollMax, scrollTop, editVars, stopsRef,
                   recomputeRafRef, syncRafRef, pendingScrollsRef, syncLockRef,
                   snapTimerRef, snapAnimRef, microtasks, inputs, origin,
                   recorded>>

Tick == TickWith(MaxLate)

(***************************************************************************)
(* Edit propagation.                                                       *)
(***************************************************************************)
\* onChange of the source pane: setMarkdown(d), then the effects of the render
SourceChange(d) ==
    /\ Idle /\ Mounted /\ sourceRef
    /\ inputs < MaxInputs
    /\ d # markdown
    /\ LET eff == DebounceEffect(timers, debounceTimer, editorReady, d,
                                 lastMarkdownFromEditorRef)
           rec == scheduleRecomputeStops(rafQueue, recomputeRafRef, HeldRafIds)
           fresh == ~burst.active \/ now >= burst.lastAt + DebounceMs
       IN  /\ markdown' = d
           /\ markdownRef' = d
           /\ timers' = eff.timers
           /\ debounceTimer' = eff.slot
           /\ rafQueue' = rec.raf
           /\ recomputeRafRef' = rec.ref
           /\ burst' = [active |-> TRUE,
                        n |-> IF fresh THEN 1 ELSE burst.n + 1,
                        lastAt |-> now,
                        replaces |-> IF fresh THEN 0 ELSE burst.replaces,
                        clean |-> (fresh \/ burst.clean) /\ editorReady,
                        differs |-> d # lastMarkdownFromEditorRef,
                        text |-> IF fresh THEN <<>> ELSE burst.text,
                        onTime |-> IF fresh THEN FALSE ELSE burst.onTime]
    /\ inputs' = inputs + 1
    /\ origin' = "source"
    /\ lastOp' = Op("sourceChange", "source", "ok")
    /\ UNCHANGED <<envVars, lastMarkdownFromEditorRef, applyingFromSourceRef,
                   stopsRef, syncRafRef, pendingScrollsRef, syncLockRef,
                   syncLockUntilRef, snapTimerRef, snapAnimRef, microtasks,
                   recorded>>

\* The engine has been created: get() returns it from now on, its `mounted`
\* listener runs, and the render this causes re-runs the debounce effect
\* (`get` is one of its dependencies).
EngineReady ==
    /\ Idle /\ Mounted /\ ~editorReady
    /\ editorReady' = TRUE
    /\ LET eff == DebounceEffect(timers, debounceTimer, TRUE, markdown,
                                 lastMarkdownFromEditorRef)
       IN  /\ timers' = eff.timers
           /\ debounceTimer' = eff.slot
    /\ microtasks' = Append(microtasks, "recompute")
    /\ burst' = [burst EXCEPT !.clean = FALSE]
    /\ lastOp' = Op("engineReady", "-", "ok")
    /\ UNCHANGED <<phase, variant, sourceRef, wysiwygScrollRef, engineDoc,
                   scrollMax, scrollTop, echo, markdown, markdownRef,
                   lastMarkdownFromEditorRef, applyingFromSourceRef, scrollVars,
                   rafQueue, inputs, origin, recorded>>

\* An edit made in the rendered pane: the engine's document becomes d and it
\* notifies markdownUpdated(d) and updated().
EngineEdit(d) ==
    /\ Idle /\ Mounted /\ editorReady
    /\ inputs < MaxInputs
    /\ d = Serialize(d)
    /\ d # engineDoc
    /\ engineDoc' = d
    /\ lastMarkdownFromEditorRef' = d
    /\ LET adopt == ListenerAdopts(d, applyingFromSourceRef, markdownRef)
           eff == DebounceEffect(timers, debounceTimer, editorReady, d, d)
           rec == scheduleRecomputeStops(rafQueue, recomputeRafRef, HeldRafIds)
       IN  /\ markdown' = IF adopt THEN d ELSE markdown
           /\ markdownRef' = IF adopt THEN d ELSE markdownRef
           /\ timers' = IF adopt THEN eff.timers ELSE timers
           /\ debounceTimer' = IF adopt THEN eff.slot ELSE debounceTimer
           /\ origin' = IF adopt THEN "engine" ELSE origin
           /\ rafQueue' = rec.raf
           /\ recomputeRafRef' = rec.ref
           /\ lastOp' = Op("engineEdit", "editor",
                           IF adopt THEN "adopted" ELSE "same")
    /\ inputs' = inputs + 1
    /\ burst' = [burst EXCEPT !.clean = FALSE]
    /\ UNCHANGED <<phase, variant, sourceRef, wysiwygScrollRef, editorReady,
                   scrollMax, scrollTop, echo, applyingFromSourceRef, stopsRef,
                   syncRafRef, pendingScrollsRef, syncLockRef, syncLockUntilRef,
                   snapTimerRef, snapAnimRef, microtasks, recorded>>

\* The debounce timer's callback.  replaceAll(text) makes the engine's
\* document the one text denotes; when that changes the document the engine
\* notifies markdownUpdated and updated before replaceAll returns, that is
\* while applyingFromSourceRef is true.
DebounceFire ==
    /\ Idle
    /\ \E t \in timers :
        /\ t.kind = "debounce"
        /\ now >= t.at
        /\ IF ~editorReady
           THEN /\ timers' = timers \ {t}
                /\ lastOp' = Op("debounceFire", "-", "noHandle")
                /\ UNCHANGED <<envVars, editVars, scrollVars, rafQueue,
                               microtasks, origin, burst>>
           ELSE LET newDoc == Serialize(t.text)
                    notified == newDoc # engineDoc
                    adopt == notified /\ ListenerAdopts(newDoc, TRUE, markdownRef)
                    last1 == IF notified THEN newDoc
                             ELSE lastMarkdownFromEditorRef
                    eff == DebounceEffect(timers \ {t}, debounceTimer,
                                          editorReady, newDoc, last1)
                    rec == scheduleRecomputeStops(rafQueue, recomputeRafRef,
                                                  HeldRafIds)
                IN  /\ engineDoc' = newDoc
                    /\ lastMarkdownFromEditorRef' = last1
                    /\ applyingFromSourceRef' = TRUE
                    /\ microtasks' = Append(microtasks, "clearApplying")
                    /\ markdown' = IF adopt THEN newDoc ELSE markdown
                    /\ markdownRef' = IF adopt THEN newDoc ELSE markdownRef
                    /\ origin' = IF adopt THEN "engine" ELSE origin
                    /\ timers' = IF adopt THEN eff.timers ELSE timers \ {t}
                    /\ debounceTimer' = IF adopt THEN eff.slot ELSE debounceTimer
                    /\ rafQueue' = rec.raf
                    /\ recomputeRafRef' = rec.ref
                    /\ burst' = [burst EXCEPT !.replaces = @ + 1,
                                              !.text = t.text,
                                              !.onTime = now >= burst.lastAt + DebounceMs]
                    /\ lastOp' = Op("debounceFire", "-", "replaced")
                    /\ UNCHANGED <<phase, variant, sourceRef,
                                   wysiwygScrollRef, editorReady, scrollMax,
                                   scrollTop, echo, stopsRef, syncRafRef,
                                   pendingScrollsRef, syncLockRef,
                                   syncLockUntilRef, snapTimerRef, snapAnimRef>>
    /\ UNCHANGED <<inputs, recorded>>

\* A queued microtask: the reset of applyingFromSourceRef, or the `mounted`
\* listener's scheduleRecomputeStops.
Microtask ==
    /\ microtasks # <<>>
    /\ microtasks' = Tail(microtasks)
    /\ IF Head(microtasks) = "clearApplying"
       THEN /\ applyingFromSourceRef' = FALSE
            /\ UNCHANGED <<rafQueue, recomputeRafRef>>
       ELSE LET rec == scheduleRecomputeStops(rafQueue, recomputeRafRef,
                                              HeldRafIds)
            IN  /\ rafQueue' = rec.raf
                /\ recomputeRafRef' = rec.ref
                /\ UNCHANGED applyingFromSourceRef
    /\ lastOp' = Op("microtask", "-", Head(microtasks))
    /\ UNCHANGED <<envVars, markdown, markdownRef, lastMarkdownFromEditorRef,
                   debounceTimer, stopsRef, syncRafRef, pendingScrollsRef,
                   syncLockRef, syncLockUntilRef, snapTimerRef, snapAnimRef,
                   timers, inputs, origin, burst, recorded>>

(***************************************************************************)
(* Stop recomputation.                                                     *)
(***************************************************************************)
\* recomputeStops without its early return
recomputeStops_unguarded(failed) ==
    [sourceStops |-> SourceStopsOf(markdownRef, R(scrollMax.source)),
     editorStops |-> EditorStopsOf(engineDoc, R(scrollMax.editor), failed)]

\* recomputeStops: the StopSet it leaves in stopsRef
recomputeStops(failed) ==
    IF ~sourceRef \/ ~wysiwygScrollRef \/ ~editorReady THEN stopsRef
    ELSE [sourceStops |-> SourceStopsOf(markdownRef, R(scrollMax.source)),
          editorStops |-> EditorStopsOf(engineDoc, R(scrollMax.editor), failed)]

\* the nodes whose DOM lookup or measurement throws: none, or any one
NodeFailures(doc) == {{}} \cup { {k} : k \in 1..Len(NodeKinds(doc)) }

\* the frame callback of scheduleRecomputeStops
RecomputeFrame ==
    /\ Idle
    /\ rafQueue # <<>>
    /\ Head(rafQueue).kind = "recompute"
    /\ rafQueue' = Tail(rafQueue)
    /\ recomputeRafRef' = NoId
    /\ \E failed \in NodeFailures(engineDoc) :
          stopsRef' = recomputeStops(failed)
    /\ lastOp' = Op("recomputeFrame", "-",
                    IF ~sourceRef \/ ~wysiwygScrollRef \/ ~editorReady
                    THEN "missing" ELSE "computed")
    /\ UNCHANGED <<envVars, editVars, syncRafRef, pendingScrollsRef,
                   syncLockRef, syncLockUntilRef, snapTimerRef, snapAnimRef,
                   timers, microtasks, inputs, origin, burst, recorded>>

\* the scroll events owed after a write that took scrollTop from tops to tops1
EchoAfter(tops, tops1) ==
    [p \in Panes |-> IF Mounted /\ tops1[p] # tops[p] /\ echo[p] = NoEcho
                     THEN 0 ELSE echo[p]]

\* The window or a pane changes size: the resize listener and the
\* ResizeObserver call scheduleRecomputeStops.
Resize(g) ==
    /\ Idle /\ Mounted
    /\ inputs < MaxInputs
    /\ g # scrollMax
    /\ scrollMax' = g
    /\ scrollTop' = [p \in Panes |-> SetScrollTop(scrollTop[p], g[p])]
    /\ echo' = EchoAfter(scrollTop, scrollTop')
    /\ LET rec == scheduleRecomputeStops(rafQueue, recomputeRafRef, HeldRafIds)
       IN  /\ rafQueue' = rec.raf
           /\ recomputeRafRef' = rec.ref
    /\ inputs' = inputs + 1
    /\ lastOp' = Op("resize", "-", "ok")
    /\ UNCHANGED <<phase, variant, sourceRef, wysiwygScrollRef, editorReady,
                   engineDoc, editVars, stopsRef, syncRafRef, pendingScrollsRef,
                   syncLockRef, syncLockUntilRef, snapTimerRef, snapAnimRef,
                   timers, microtasks, origin, burst, recorded>>

(***************************************************************************)
(* Scroll events.                                                          *)
(***************************************************************************)
ScrollChoices(p) == { R(0), R(scrollMax[p] \div 2), R(scrollMax[p]) }

\* The user scrolls pane who to v; its onScroll handler runs.
UserScroll(who, v) ==
    /\ Idle /\ Mounted
    /\ inputs < MaxInputs
    /\ v # scrollTop[who]
    /\ scrollTop' = [scrollTop EXCEPT ![who] = v]
    /\ ScrollHandler(who, scrollTop')
    /\ inputs' = inputs + 1
    /\ UNCHANGED <<phase, variant, sourceRef, wysiwygScrollRef, editorReady,
                   engineDoc, scrollMax, echo, editVars, stopsRef,
                   recomputeRafRef, snapAnimRef, microtasks, origin, burst>>

\* The scroll event of a programmatic write to pane who's scrollTop.
EchoScroll(who) ==
    /\ Idle /\ Mounted
    /\ echo[who] # NoEcho
    /\ echo' = [echo EXCEPT ![who] = NoEcho]
    /\ ScrollHandler(who, scrollTop)
    /\ UNCHANGED <<phase, variant, sourceRef, wysiwygScrollRef, editorReady,
                   engineDoc, scrollMax, scrollTop, editVars, stopsRef,
                   recomputeRafRef, snapAnimRef, microtasks, inputs, origin,
                   burst>>

\* the frame callback of scheduleScrollTop, were it to leave syncRafRef set
SyncFrame_keepsRef ==
    /\ Idle
    /\ rafQueue # <<>>
    /\ Head(rafQueue).kind = "sync"
    /\ rafQueue' = Tail(rafQueue)
    /\ pendingScrollsRef' = NoPending
    /\ scrollTop' = [p \in Panes |->
                        FrameWrite(p, pendingScrollsRef, scrollTop, scrollMax)]
    /\ echo' = EchoAfter(scrollTop, scrollTop')
    /\ recorded' = NoPending
    /\ lastOp' = Op("syncFrame", "-",
                    IF scrollTop' # scrollTop THEN "wrote" ELSE "nowrite")
    /\ UNCHANGED <<phase, variant, sourceRef, wysiwygScrollRef, editorReady,
                   engineDoc, scrollMax, editVars, stopsRef, recomputeRafRef,
                   syncRafRef, syncLockRef, syncLockUntilRef, snapTimerRef, snapAnimRef,
                   timers, microtasks, inputs, origin, burst>>

\* the frame callback of scheduleScrollTop
SyncFrame ==
    /\ Idle
    /\ rafQueue # <<>>
    /\ Head(rafQueue).kind = "sync"
    /\ rafQueue' = Tail(rafQueue)
    /\ syncRafRef' = NoId
    /\ pendingScrollsRef' = NoPending
    /\ scrollTop' = [p \in Panes |->
                        FrameWrite(p, pendingScrollsRef, scrollTop, scrollMax)]
    /\ echo' = EchoAfter(scrollTop, scrollTop')
    /\ recorded' = NoPending
    /\ lastOp' = Op("syncFrame", "-",
                    IF scrollTop' # scrollTop THEN "wrote" ELSE "nowrite")
    /\ UNCHANGED <<phase, variant, sourceRef, wysiwygScrollRef, editorReady,
                   engineDoc, scrollMax, editVars, stopsRef, recomputeRafRef,
                   syncLockRef, syncLockUntilRef, snapTimerRef, snapAnimRef,
                   timers, microtasks, inputs, origin, burst>>

\* the idle timer callback of scheduleSnap(who)
SnapFire ==
    /\ Idle
    /\ \E t \in timers :
        /\ t.kind = "snap"
        /\ now >= t.at
        /\ timers' = timers \ {t}
        /\ snapTimerRef' = [snapTimerRef EXCEPT ![t.who] = NoId]
        /\ IF isLockedByOther(t.who) \/ ~(sourceRef /\ wysiwygScrollRef)
           THEN /\ syncLockRef' = LockAfterCheck(t.who)
                /\ lastOp' = Op("snapFire", t.who,
                                IF isLockedByOther(t.who) THEN "ignored"
                                ELSE "noElement")
                /\ UNCHANGED <<syncLockUntilRef, rafQueue, snapAnimRef>>
           ELSE LET target == MappedTarget(t.who, scrollTop)
                    lock == acquireLock(t.who, SnapLockMs)
                    anim == smoothScrollTo(Other(t.who), target, rafQueue,
                                           snapAnimRef)
                IN  /\ syncLockRef' = lock.holder
                    /\ syncLockUntilRef' = lock.until
                    /\ rafQueue' = anim.raf
                    /\ snapAnimRef' = anim.refs
                    /\ lastOp' = Op("snapFire", t.who, "started")
    /\ UNCHANGED <<envVars, editVars, stopsRef, recomputeRafRef, syncRafRef,
                   pendingScrollsRef, microtasks, inputs, origin, burst,
                   recorded>>

\* `step` of smoothScrollTo
AnimStep ==
    /\ Idle
    /\ rafQueue # <<>>
    /\ Head(rafQueue).kind = "anim"
    /\ LET a == Head(rafQueue)
           p == clamp(RNorm(now - a.startAt, a.dur), R(0), R(1))
           e == easeOutCubic(p)
           q1 == Tail(rafQueue)
           id == FreshRafId(q1, HeldRafIds)
       IN  /\ scrollTop' = [scrollTop EXCEPT
                              ![a.who] = SetScrollTop(RAdd(a.start, RMul(a.delta, e)),
                                                      scrollMax[a.who])]
           /\ IF RLt(p, R(1))
              THEN /\ rafQueue' = Append(q1, [a EXCEPT !.id = id, !.age = 0])
                   /\ snapAnimRef' = [snapAnimRef EXCEPT ![a.who] = id]
              ELSE /\ rafQueue' = q1
                   /\ UNCHANGED snapAnimRef
           /\ lastOp' = Op("animStep", a.who,
                           IF RLt(p, R(1)) THEN "again" ELSE "done")
    /\ echo' = EchoAfter(scrollTop, scrollTop')
    /\ UNCHANGED <<phase, variant, sourceRef, wysiwygScrollRef, editorReady,
                   engineDoc, scrollMax, editVars, stopsRef, recomputeRafRef,
                   syncRafRef, pendingScrollsRef, syncLockRef, syncLockUntilRef,
                   snapTimerRef, timers, microtasks, inputs, origin, burst,
                   recorded>>

(***************************************************************************)
(* Teardown.                                                               *)
(***************************************************************************)
\* clearSnapTimers
clearSnapTimers(ts) ==
    ClearTimer(ClearTimer(ts, snapTimerRef["source"]), snapTimerRef["editor"])

\* what the cleanups of the effects cancel on unmount
UnmountCleanup ==
    LET ts1 == EffectCleanup(timers, debounceTimer)
    IN  IF variant = "snap"
        THEN [timers |-> clearSnapTimers(ts1),
              raf |-> CancelRaf(CancelRaf(rafQueue, snapAnimRef["source"]),
                                snapAnimRef["editor"]),
              snapTimerRef |-> [p \in Panes |-> NoId]]
        ELSE [timers |-> ts1, raf |-> rafQueue, snapTimerRef |-> snapTimerRef]

\* The component unmounts: the effects' cleanups run, the listeners go and
\* the element refs are reset.
Unmount ==
    /\ Idle /\ Mounted
    /\ phase' = "unmounted"
    /\ sourceRef' = FALSE
    /\ wysiwygScrollRef' = FALSE
    /\ echo' = [p \in Panes |-> NoEcho]
    /\ timers' = UnmountCleanup.timers
    /\ rafQueue' = UnmountCleanup.raf
    /\ snapTimerRef' = UnmountCleanup.snapTimerRef
    /\ burst' = NoBurst
    /\ inputs' = MaxInputs
    /\ origin' = "source"
    /\ lastOp' = Op("unmount", "-", "ok")
    /\ UNCHANGED <<variant, editorReady, engineDoc, scrollMax, scrollTop,
                   editVars, stopsRef, recomputeRafRef, syncRafRef,
                   pendingScrollsRef, syncLockRef, syncLockUntilRef, snapAnimRef,
                   microtasks, recorded>>

Next ==
    \/ Tick
    \/ \E d \in Docs : SourceChange(d)
    \/ EngineReady
    \/ \E d \in Docs : EngineEdit(d)
    \/ DebounceFire
    \/ Microtask
    \/ RecomputeFrame
    \/ \E g \in Geoms : Resize(g)
    \/ \E who \in Panes : \E v \in ScrollChoices(who) : UserScroll(who, v)
    \/ \E who \in Panes : EchoScroll(who)
    \/ SyncFrame
    \/ SnapFire
    \/ AnimStep
    \/ Unmount

Spec == Init /\ [][Next]_vars

(***************************************************************************)
(* The edit protocol alone, with the scheduling the runtime guarantees:    *)
(* time passes, due timers fire, queued microtasks and frames run, and the *)
(* engine's creation completes.                                            *)
(***************************************************************************)
EditNext ==
    \/ Tick
    \/ \E d \in Docs : SourceChange(d)
    \/ EngineReady
    \/ \E d \in Docs : EngineEdit(d)
    \/ DebounceFire
    \/ Microtask
    \/ RecomputeFrame
    \/ Unmount

\* ENABLED <<RecomputeFrame>>_vars, as a state predicate: a step of
\* RecomputeFrame always changes rafQueue
RecomputeFrameEnabled ==
    /\ Idle
    /\ rafQueue # <<>>
    /\ Head(rafQueue).kind = "recompute"

\* WF_vars(RecomputeFrame), with the enabling condition written out
RecomputeFrameFair ==
    []<>(~RecomputeFrameEnabled) \/ []<><<RecomputeFrame>>_vars

EditFairSpec ==
    /\ Init
    /\ [][EditNext]_vars
    /\ WF_vars(Tick)
    /\ WF_vars(EngineReady)
    /\ WF_vars(DebounceFire)
    /\ WF_vars(Microtask)
    /\ RecomputeFrameFair

(***************************************************************************)
(* Stop recomputation with the measurements a pass reads drawn from small  *)
(* sets: the line height getLineHeightPx returns and the offsets           *)
(* coordsAtPos reports need not be whole pixels.                           *)
(***************************************************************************)
\* 20 px, and 19.9 px: line 2 at 39.8 px, line 3 at 59.7 px
LineHeights == { R(LineHeightPx), <<199, 10>> }

\* the engine documents of the recomputation study: those of Docs and one
\* with two headings and a paragraph
StopDocs == Docs \cup { <<"H", "B", "H", "B", "T">> }

\* the sets of nodes whose coordinate query may fail in one pass: any
NodeSubsets(doc) == SUBSET (1..Len(NodeKinds(doc)))

\* the rendered offset of node k: every 60 px, or every 99.7 px
Layouts == { [k \in 1..4 |-> NodeTop(k)],
             [k \in 1..4 |-> <<(k - 1) * 997, 10>>] }

\* recomputeStops, lineHeight and tops being what the pass measures
recomputeStopsAt(failed, lineHeight, tops) ==
    IF ~sourceRef \/ ~wysiwygScrollRef \/ ~editorReady THEN stopsRef
    ELSE [sourceStops |-> SourceStopsAt(markdownRef, R(scrollMax.source),
                                        lineHeight),
          editorStops |-> EditorStopsAt(engineDoc, R(scrollMax.editor), failed,
                                        tops)]

\* the frame callback of scheduleRecomputeStops
RecomputeMeasured ==
    /\ Idle
    /\ rafQueue # <<>>
    /\ Head(rafQueue).kind = "recompute"
    /\ rafQueue' = Tail(rafQueue)
    /\ recomputeRafRef' = NoId
    /\ \E failed \in NodeSubsets(engineDoc) :
       \E lineHeight \in LineHeights :
       \E tops \in Layouts :
          stopsRef' = recomputeStopsAt(failed, lineHeight, tops)
    /\ lastOp' = Op("recomputeFrame", "-",
                    IF ~sourceRef \/ ~wysiwygScrollRef \/ ~editorReady
                    THEN "missing" ELSE "computed")
    /\ UNCHANGED <<envVars, editVars, syncRafRef, pendingScrollsRef,
                   syncLockRef, syncLockUntilRef, snapTimerRef, snapAnimRef,
                   timers, microtasks, inputs, origin, burst, recorded>>

StopNext ==
    \/ Tick
    \/ \E d \in Docs : SourceChange(d)
    \/ EngineReady
    \/ \E d \in StopDocs : EngineEdit(d)
    \/ DebounceFire
    \/ Microtask
    \/ RecomputeMeasured
    \/ \E g \in Geoms : Resize(g)
    \/ Unmount

StopSpec == Init /\ [][StopNext]_vars

(***************************************************************************)
(* The mapper alone: the stop sequences, the scroll ranges and the offset  *)
(* are drawn from small sets (empty, single-entry, unsorted, unbracketed   *)
(* and fractional sequences among them) and a scroll handler applies       *)
(* mapScrollTop to them once.                                              *)
(***************************************************************************)
MapStops ==
    { <<>>,
      <<R(0)>>,
      <<R(0), R(400)>>,
      <<R(0), R(500)>>,
      <<R(0), R(100), R(400)>>,
      <<R(0), R(50), R(500)>>,
      <<R(0), <<199, 2>>, R(400)>>,
      <<R(0), R(100), R(200), R(400)>>,
      <<R(0), R(100), R(300), R(350), R(400)>>,
      <<R(0), R(400), R(400)>>,
      <<R(50), R(60)>>,
      <<R(400), R(100), R(0)>> }

MapMaxes == { 0, 400, 500, 800 }

MapOffsets == { R(0), R(50), <<199, 2>>, R(100), R(200), R(250), R(300),
                R(400), R(500), R(1000) }

MapInit ==
    /\ phase = "mounted"
    /\ variant = "plain"
    /\ sourceRef = TRUE
    /\ wysiwygScrollRef = TRUE
    /\ editorReady = FALSE
    /\ \E d \in InitialDocs :
          /\ markdown = d
          /\ markdownRef = d
          /\ lastMarkdownFromEditorRef = d
          /\ engineDoc = Serialize(d)
    /\ scrollMax \in [Panes -> MapMaxes]
    /\ scrollTop = [p \in Panes |-> R(0)]
    /\ echo = [p \in Panes |-> NoEcho]
    /\ applyingFromSourceRef = FALSE
    /\ stopsRef \in [sourceStops : MapStops, editorStops : MapStops]
    /\ recomputeRafRef = 1
    /\ syncRafRef = NoId
    /\ pendingScrollsRef = NoPending
    /\ syncLockRef = "none"
    /\ syncLockUntilRef = 0
    /\ snapTimerRef = [p \in Panes |-> NoId]
    /\ snapAnimRef = [p \in Panes |-> NoId]
    /\ debounceTimer = NoId
    /\ timers = {}
    /\ rafQueue = <<PlainCallback(1, "recompute")>>
    /\ microtasks = <<>>
    /\ inputs = 0
    /\ lastOp = Op("mount", "-", "ok")
    /\ origin = "source"
    /\ burst = NoBurst
    /\ recorded = NoPending

\* The onScroll handler of pane who runs, the pane's scrollTop reading v.
MapScroll(who, v) ==
    /\ lastOp.op = "mount"
    /\ scrollTop' = [scrollTop EXCEPT ![who] = v]
    /\ ScrollHandler(who, scrollTop')
    /\ UNCHANGED <<phase, variant, sourceRef, wysiwygScrollRef, editorReady,
                   engineDoc, scrollMax, echo, editVars, stopsRef,
                   recomputeRafRef, snapAnimRef, microtasks, inputs, origin,
                   burst>>

MapNext == \E who \in Panes : \E v \in MapOffsets : MapScroll(who, v)

MapSpec == MapInit /\ [][MapNext]_vars

(***************************************************************************)
(* One user scroll and nothing else from the user, with scroll events that *)
(* may be dispatched after every lock window is over, under the scheduling *)
(* the runtime guarantees: time passes, owed scroll events are dispatched, *)
(* requested frames and due timers run.                                    *)
(***************************************************************************)
PingTick == TickWith(MaxEchoLate)

\* the one scroll of the user
PingScroll ==
    /\ inputs = 0
    /\ \E who \in Panes : \E v \in ScrollChoices(who) : UserScroll(who, v)

PingNext ==
    \/ PingTick
    \/ EngineReady
    \/ Microtask
    \/ RecomputeFrame
    \/ PingScroll
    \/ \E who \in Panes : EchoScroll(who)
    \/ SyncFrame
    \/ SnapFire
    \/ AnimStep

\* ENABLED <<A>>_vars of the scroll controller's callbacks, as state
\* predicates: a step of each of them takes its event, frame or timer away
EchoScrollEnabled(who) == Idle /\ Mounted /\ echo[who] # NoEcho

SyncFrameEnabled == Idle /\ rafQueue # <<>> /\ Head(rafQueue).kind = "sync"

SnapFireEnabled == Idle /\ \E t \in timers : t.kind = "snap" /\ now >= t.at

AnimStepEnabled == Idle /\ rafQueue # <<>> /\ Head(rafQueue).kind = "anim"

\* weak fairness of the callbacks, with the enabling conditions written out
PingFair ==
    /\ \A who \in Panes :
          []<>(~EchoScrollEnabled(who)) \/ []<><<EchoScroll(who)>>_vars
    /\ []<>(~SyncFrameEnabled) \/ []<><<SyncFrame>>_vars
    /\ []<>(~SnapFireEnabled) \/ []<><<SnapFire>>_vars
    /\ []<>(~AnimStepEnabled) \/ []<><<AnimStep>>_vars

PingFairSpec ==
    /\ Init
    /\ [][PingNext]_vars
    /\ WF_vars(PingTick)
    /\ WF_vars(Microtask)
    /\ RecomputeFrameFair
    /\ PingFair

(***************************************************************************)
(* Properties.                                                             *)
(***************************************************************************)
\* a scroll event on pane who: the user's, or the one a programmatic write owes
ScrollStep(who) ==
    \/ EchoScroll(who)
    \/ \E v \in ScrollChoices(who) : UserScroll(who, v)

Last(seq) == seq[Len(seq)]

SyncCallbacks == { i \in 1..Len(rafQueue) : rafQueue[i].kind = "sync" }

DebounceTimers(ts) == { t \in ts : t.kind = "debounce" }

\* the lock has a holder whose window is over
LockExpired == syncLockRef # "none" /\ now > syncLockUntilRef

\* the lock is held by pane p's opposite and its window is not over
HeldAgainst(p) == syncLockRef = Other(p) /\ now <= syncLockUntilRef

\* C1 -- Echo suppression: a scroll event on a pane whose opposite holds the
\* unexpired lock records no pending write, requests no frame, sets no timer,
\* leaves the lock as it is and does not move the holder's pane.
C1_EchoSuppression ==
    [][\A who \in Panes :
          (ScrollStep(who) /\ HeldAgainst(who))
          => /\ UNCHANGED <<pendingScrollsRef, syncRafRef, rafQueue, timers,
                           snapTimerRef, snapAnimRef, syncLockRef,
                           syncLockUntilRef>>
             /\ scrollTop'[Other(who)] = scrollTop[Other(who)]]_vars

C1_Witness ==
    /\ lastOp = Op("scroll", "editor", "ignored")
    /\ syncLockRef = "source"
    /\ now <= syncLockUntilRef

\* the window of the current burst of source changes is over and its timer,
\* if it had one, is gone
BurstQuiescent ==
    /\ Mounted /\ Idle
    /\ burst.active /\ burst.clean
    /\ now >= burst.lastAt + DebounceMs
    /\ DebounceTimers(timers) = {}

C3_EchoFreeEditLoop ==
    [][DebounceFire =>
          /\ markdown' = markdown
          /\ markdownRef' = markdownRef
          /\ origin' = origin
          /\ DebounceTimers(timers') \subseteq timers]_vars

C3_Witness ==
    /\ lastOp = Op("debounceFire", "-", "replaced")
    /\ applyingFromSourceRef
    /\ lastMarkdownFromEditorRef = engineDoc
    /\ engineDoc # markdown

\* C4 -- At most one direction commits per change: the step that adopts a
\* text the engine reported leaves no debounce timer pending, a pending
\* debounce timer always carries a text the source pane originated, and a
\* replace is only ever issued for such a text.
C4_OneDirectionPerChange ==
    [][/\ DebounceTimers(timers) # {} => origin = "source"
       /\ ((\E d \in Docs : EngineEdit(d)) /\ markdown' # markdown)
          => DebounceTimers(timers') = {}
       /\ (DebounceFire /\ editorReady) => origin = "source"]_vars

C4_Witness ==
    /\ lastOp = Op("engineEdit", "editor", "adopted")
    /\ origin = "engine"
    /\ markdown = engineDoc
    /\ DebounceTimers(timers) = {}
    /\ inputs >= 2

C6_LockExpiry ==
    [][/\ LockExpired =>
            \A p \in Panes : ~isLockedByOther(p) /\ LockAfterCheck(p) = "none"
       /\ \A who \in Panes :
            (LockExpired /\ ScrollStep(who))
            => /\ syncLockRef' = who
               /\ syncLockUntilRef' = now + ScrollLockMs
               /\ pendingScrollsRef'[Other(who)] # <<>>]_vars

C6_Witness ==
    /\ lastOp = Op("scroll", "editor", "acceptedExpired")
    /\ syncLockRef = "editor"
    /\ syncLockUntilRef = now + ScrollLockMs
    /\ pendingScrollsRef["source"] # <<>>

\* C7 -- The lock cannot freeze synchronization: its remaining window never
\* exceeds the longest window; only an accepted scroll event or snap firing
\* of a pane makes that pane the holder or prolongs the window; time shortens
\* an unexpired window; and a scroll event of a pane whose opposite does not
\* hold an unexpired lock is accepted and records a pending write.
C7_LockNeverFreezes ==
    [][/\ syncLockUntilRef <= now + SnapLockMs
       /\ (syncLockRef' # syncLockRef \/ syncLockUntilRef' > syncLockUntilRef)
          => \E who \in Panes :
                /\ syncLockRef' = who
                /\ ~HeldAgainst(who)
                /\ (ScrollStep(who) \/ SnapFire)
       /\ (Tick /\ now <= syncLockUntilRef)
          => syncLockUntilRef' < syncLockUntilRef
       /\ \A who \in Panes :
            (ScrollStep(who) /\ ~HeldAgainst(who))
            => /\ syncLockRef' = who
               /\ pendingScrollsRef'[Other(who)] # <<>>]_vars

C7_Witness ==
    /\ variant = "snap"
    /\ lastOp = Op("scroll", "source", "acceptedExpired")
    /\ syncLockRef = "source"
    /\ pendingScrollsRef["editor"] # <<>>

\* C8 -- Last value wins: at most one frame callback of the scroll-write pass
\* is queued; the buffer holds, per pane, nothing or exactly the last target
\* asked since the last pass; the pass empties the buffer and moves a pane
\* only to its last target, and only when the pane is more than half a pixel
\* away from it.
C8_LastValueWins ==
    [][/\ Cardinality(SyncCallbacks) <= 1
       /\ \A p \in Panes :
            pendingScrollsRef[p] =
                (IF recorded[p] = <<>> THEN <<>> ELSE <<Last(recorded[p])>>)
       /\ SyncFrame =>
            /\ pendingScrollsRef' = NoPending
            /\ \A p \in Panes :
                 scrollTop'[p] =
                    IF recorded[p] = <<>> THEN scrollTop[p]
                    ELSE LET next == clamp(Last(recorded[p]), R(0), R(scrollMax[p]))
                         IN  IF RLt(Half, RAbs(RSub(scrollTop[p], next)))
                             THEN SetScrollTop(next, scrollMax[p])
                             ELSE scrollTop[p]]_vars

C8_Witness ==
    \E p \in Panes :
        /\ Len(recorded[p]) >= 2
        /\ recorded[p][1] # Last(recorded[p])
        /\ pendingScrollsRef[p] = <<Last(recorded[p])>>
        /\ Cardinality(SyncCallbacks) = 1

\* C9 -- Teardown cancellation: once the component has unmounted no timer and
\* no frame callback of it is pending, and none runs.
C9_TeardownCancelsAll ==
    phase = "unmounted" =>
        /\ timers = {}
        /\ rafQueue = <<>>
        /\ lastOp.op \in {"unmount", "tick"}

\* a pane element or the engine's handle is missing
Missing == ~sourceRef \/ ~wysiwygScrollRef \/ ~editorReady

ElementMissing == ~sourceRef \/ ~wysiwygScrollRef

\* the step takes no lock, records no write, replaces nothing, keeps the stops
NoEffect ==
    /\ UNCHANGED <<syncLockUntilRef, pendingScrollsRef, engineDoc, stopsRef>>
    /\ syncLockRef' \in {syncLockRef, "none"}

NonDecreasing(s) == \A i \in 1..(Len(s) - 1) : RLe(s[i], s[i + 1])

\* s begins at 0 and ends at max
Bracketed(s, max) == Len(s) >= 1 /\ s[1] = R(0) /\ s[Len(s)] = max

\* s begins at 0 and ends at most 0.5 below max
NearBracketed(s, max) ==
    /\ Len(s) >= 1
    /\ s[1] = R(0)
    /\ RLe(s[Len(s)], max)
    /\ RLe(RSub(max, s[Len(s)]), Half)

\* the last step was a recomputation that ran to its end
JustComputed == lastOp = Op("recomputeFrame", "-", "computed")

\* C11 as stated: in every state, before the first recomputation too, both
\* cached sequences are non-decreasing and begin at 0, and right after a
\* recomputation each ends at the maximum scroll offset that pass measured.
C11_StopSetBracketed ==
    \A p \in Panes :
        /\ NonDecreasing(StopsOf(p))
        /\ Len(StopsOf(p)) >= 1
        /\ StopsOf(p)[1] = R(0)
        /\ JustComputed => Bracketed(StopsOf(p), R(scrollMax[p]))

\* C11 amended: the cached sequences are both empty (no recomputation has
\* run to its end yet) or both non-decreasing and beginning at 0, and right
\* after a recomputation each ends within 0.5 px below the maximum scroll
\* offset that pass measured.
C11_StopSetAfterPass ==
    /\ \/ \A p \in Panes : StopsOf(p) = <<>>
       \/ \A p \in Panes : NonDecreasing(StopsOf(p)) /\ Len(StopsOf(p)) >= 1
                                /\ StopsOf(p)[1] = R(0)
    /\ JustComputed =>
          \A p \in Panes : NearBracketed(StopsOf(p), R(scrollMax[p]))

\* a pass has just left source stops that end at 39.8 px, the maximum being 40
C11_Witness ==
    /\ JustComputed
    /\ scrollMax.source = 40
    /\ stopsRef.sourceStops = <<R(0), <<199, 5>>>>
    /\ Len(stopsRef.editorStops) >= 1

(***************************************************************************)
(* C12 - C18.  The mapper, as the scroll handler has just applied it.      *)
(***************************************************************************)
\* a scroll handler has run and asked for a write
MapCalled == lastOp.op = "scroll" /\ lastOp.res \in {"accepted", "acceptedExpired"}

\* the arguments of its call of mapScrollTop, and the target it recorded
FromStops == StopsOf(lastOp.who)

ToStops == StopsOf(Other(lastOp.who))

FromMax == R(scrollMax[lastOp.who])

ToMax == R(scrollMax[Other(lastOp.who)])

MapArg == scrollTop[lastOp.who]

MapResult == pendingScrollsRef[Other(lastOp.who)][1]

PositiveRanges == RLt(R(0), FromMax) /\ RLt(R(0), ToMax)

\* a StopSet sequence: ascending, entries more than 0.5 px apart
Deduplicated(s) == \A i \in 1..(Len(s) - 1) : RLt(Half, RSub(s[i + 1], s[i]))

\* a valid stop sequence bracketed at 0 and max
ValidStops(s, max) == Len(s) >= 2 /\ Deduplicated(s) /\ Bracketed(s, max)

\* C12: for valid stop sequences bracketed at 0 and at the (positive) maxima
\* M and N, of any lengths, offset 0 maps to 0 and offset M maps to N.
C12_BoundaryMapping ==
    (MapCalled /\ PositiveRanges /\ ValidStops(FromStops, FromMax)
               /\ ValidStops(ToStops, ToMax)) =>
        /\ MapArg = R(0) => MapResult = R(0)
        /\ MapArg = FromMax => MapResult = ToMax

\* offset M = 400 of a five-stop sequence has been mapped to N = 500 of a
\* three-stop sequence
C12_Witness ==
    /\ MapCalled
    /\ Len(FromStops) = 5 /\ ValidStops(FromStops, FromMax)
    /\ Len(ToStops) = 3 /\ ValidStops(ToStops, ToMax)
    /\ MapArg = R(400)
    /\ MapResult = R(500)

\* C13: for non-decreasing stop sequences of any lengths and any maxima, the
\* mapper is non-decreasing in the offset: x <= y implies map(x) <= map(y).
C13_Monotonicity ==
    (MapCalled /\ NonDecreasing(FromStops) /\ NonDecreasing(ToStops)) =>
        \A y \in MapOffsets :
            LET my == mapScrollTop(y, FromStops, ToStops, FromMax, ToMax)
            IN  /\ RLe(MapArg, y) => RLe(MapResult, my)
                /\ RLe(y, MapArg) => RLe(my, MapResult)

\* offset 250 has been mapped between sequences of lengths 4 and 3, strictly
\* above the image of 200
C13_Witness ==
    /\ MapCalled
    /\ Len(FromStops) = 4 /\ NonDecreasing(FromStops)
    /\ Len(ToStops) = 3 /\ NonDecreasing(ToStops)
    /\ PositiveRanges
    /\ MapArg = R(250)
    /\ RLt(mapScrollTop(R(200), FromStops, ToStops, FromMax, ToMax), MapResult)

Min(a, b) == IF a < b THEN a ELSE b

\* C14 as stated: for valid stop sequences, of different lengths too, the
\* k-th stop of the from-pane maps to the k-th stop of the to-pane, for every
\* index k present in both sequences.
C14_LandmarkAlignment ==
    (MapCalled /\ PositiveRanges /\ ValidStops(FromStops, FromMax)
               /\ ValidStops(ToStops, ToMax)) =>
        \A k \in 1..Min(Len(FromStops), Len(ToStops)) :
            MapArg = FromStops[k] => MapResult = ToStops[k]

\* the value at index position x (0-based, a rational) of the piecewise-linear
\* curve through the entries of s
InterpAt(s, x) ==
    LET i == RFloor(x)
    IN  IF i + 2 > Len(s) THEN s[Len(s)]
        ELSE RAdd(s[i + 1], RMul(RSub(s[i + 2], s[i + 1]), RSub(x, R(i))))

\* landmark j (0-based) of s taken at n evenly spaced index positions
Landmark(s, n, j) == InterpAt(s, RNorm(j * (Len(s) - 1), n - 1))

\* C14 amended: with n the smaller of the two lengths, the mapper sends
\* landmark j of the from-sequence taken at n evenly spaced index positions to
\* landmark j of the to-sequence taken the same way, for every j < n; these
\* are the stops themselves when the two sequences have the same length.
C14_ResampledAlignment ==
    (MapCalled /\ PositiveRanges /\ ValidStops(FromStops, FromMax)
               /\ ValidStops(ToStops, ToMax)) =>
        LET n == Min(Len(FromStops), Len(ToStops))
        IN  /\ \A j \in 0..(n - 1) :
                  MapArg = Landmark(FromStops, n, j) =>
                      MapResult = Landmark(ToStops, n, j)
            /\ Len(FromStops) = Len(ToStops) =>
                  \A k \in 1..n : /\ Landmark(FromStops, n, k - 1) = FromStops[k]
                                   /\ Landmark(ToStops, n, k - 1) = ToStops[k]

\* the third of five from-stops (300) has been mapped to the second of three
\* to-stops (50): landmark 1 of both sequences taken at three positions
C14_Witness ==
    /\ MapCalled
    /\ FromStops = <<R(0), R(100), R(300), R(350), R(400)>>
    /\ ToStops = <<R(0), R(50), R(500)>>
    /\ FromMax = R(400) /\ ToMax = R(500)
    /\ MapArg = R(300)
    /\ MapResult = R(50)

\* C15: for strictly increasing, bracketed sequences S and T of the same
\* length n >= 2, S[k] maps to T[k] for every k, and an offset strictly
\* between S[k] and S[k+1] maps strictly between T[k] and T[k+1], at the same
\* fraction of the segment; with S = [0,100,400], T = [0,50,500], maxima 400
\* and 500: 100 maps to 50 and 250 maps strictly between 50 and 500.
C15_ExactInterpolation ==
    /\ (MapCalled /\ PositiveRanges /\ ValidStops(FromStops, FromMax)
                  /\ ValidStops(ToStops, ToMax)
                  /\ Len(FromStops) = Len(ToStops)) =>
          /\ \A k \in 1..Len(FromStops) :
                MapArg = FromStops[k] => MapResult = ToStops[k]
          /\ \A k \in 1..(Len(FromStops) - 1) :
                (RLt(FromStops[k], MapArg) /\ RLt(MapArg, FromStops[k + 1])) =>
                    /\ RLt(ToStops[k], MapResult)
                    /\ RLt(MapResult, ToStops[k + 1])
                    /\ RMul(RSub(MapResult, ToStops[k]),
                            RSub(FromStops[k + 1], FromStops[k]))
                         = RMul(RSub(MapArg, FromStops[k]),
                                RSub(ToStops[k + 1], ToStops[k]))
    /\ (MapCalled /\ FromStops = <<R(0), R(100), R(400)>>
                  /\ ToStops = <<R(0), R(50), R(500)>>
                  /\ FromMax = R(400) /\ ToMax = R(500)) =>
          /\ MapArg = R(100) => MapResult = R(50)
          /\ MapArg = R(250) => RLt(R(50), MapResult) /\ RLt(MapResult, R(500))

\* the scenario's offset 250 has been mapped to 275
C15_Witness ==
    /\ MapCalled
    /\ FromStops = <<R(0), R(100), R(400)>>
    /\ ToStops = <<R(0), R(50), R(500)>>
    /\ FromMax = R(400) /\ ToMax = R(500)
    /\ MapArg = R(250)
    /\ MapResult = R(275)

\* clamp(fromOffset, 0, fromMax) / fromMax * toMax
LinearRatio(x, fromMax, toMax) ==
    RMul(RDiv(clamp(x, R(0), fromMax), fromMax), toMax)

\* C16 as stated: when either stop sequence has fewer than 2 entries and both
\* scroll ranges are positive, the mapper equals the linear ratio.
C16_LinearRatio ==
    (MapCalled /\ PositiveRanges
               /\ (Len(FromStops) < 2 \/ Len(ToStops) < 2)) =>
        MapResult = LinearRatio(MapArg, FromMax, ToMax)

\* s has fewer than 2 entries, or begins at 0 and ends at max
ShortOrBracketed(s, max) == Len(s) < 2 \/ Bracketed(s, max)

\* C16 amended: when either stop sequence has fewer than 2 entries, both
\* scroll ranges are positive and the other sequence, if it has 2 or more
\* entries, begins at 0 and ends at its pane's maximum, the mapper equals the
\* linear ratio; in particular map(200, [], [], 400, 800) = 400.
C16_LinearRatioBracketed ==
    /\ (MapCalled /\ PositiveRanges
                  /\ (Len(FromStops) < 2 \/ Len(ToStops) < 2)
                  /\ ShortOrBracketed(FromStops, FromMax)
                  /\ ShortOrBracketed(ToStops, ToMax)) =>
          MapResult = LinearRatio(MapArg, FromMax, ToMax)
    /\ (MapCalled /\ FromStops = <<>> /\ ToStops = <<>>
                  /\ FromMax = R(400) /\ ToMax = R(800)
                  /\ MapArg = R(200)) =>
          MapResult = R(400)

\* map(200, [], [], 400, 800) has been computed: 400
C16_Witness ==
    /\ MapCalled
    /\ FromStops = <<>> /\ ToStops = <<>>
    /\ FromMax = R(400) /\ ToMax = R(800)
    /\ MapArg = R(200)
    /\ MapResult = R(400)

\* C17: when fromMax is 0 the mapper returns 0 whatever the offset and the
\* stops, and when toMax is 0 the result is 0.
C17_DegenerateFallback ==
    MapCalled =>
        /\ FromMax = R(0) => MapResult = R(0)
        /\ ToMax = R(0) => MapResult = R(0)

\* fromMax is 0, the to-sequence does not begin at 0, and the result is 0
C17_Witness ==
    /\ MapCalled
    /\ FromMax = R(0) /\ ToMax = R(500)
    /\ Len(FromStops) >= 2
    /\ ToStops = <<R(50), R(60)>>
    /\ MapArg = R(250)
    /\ MapResult = R(0)

\* a number: a rational with a positive denominator
IsNumber(r) == r[1] \in Int /\ r[2] \in Nat /\ r[2] > 0

\* C18: for every offset, maxima and pair of stop sequences (empty,
\* single-entry, unsorted and unbracketed ones too) the scan selects a segment
\* i with 0 <= i and i + 1 < the resampled length, both resampled sequences
\* have that length and hold numbers, and the mapper returns a number.
C18_Totality ==
    /\ \A who \in Panes : \A x \in MapOffsets :
          LET fromMax == R(scrollMax[who])
              toMax == R(scrollMax[Other(who)])
              from == substituteStops(StopsOf(who), fromMax)
              to == substituteStops(StopsOf(Other(who)), toMax)
              len == commonLen(from, to)
              fStops == resampleStops(from, len)
              tStops == resampleStops(to, len)
              i == SegmentIndex(fStops, len, clamp(x, R(0), fromMax), 0)
          IN  (RLt(R(0), fromMax) /\ RLt(R(0), toMax)) =>
                  /\ len >= 2
                  /\ Len(fStops) = len
                  /\ Len(tStops) = len
                  /\ \A j \in 1..len : IsNumber(fStops[j]) /\ IsNumber(tStops[j])
                  /\ 0 <= i
                  /\ i + 1 < len
    /\ MapCalled => IsNumber(MapResult)

\* an offset beyond the maximum has been mapped from an unsorted sequence to a
\* single-entry one
C18_Witness ==
    /\ MapCalled
    /\ FromStops = <<R(400), R(100), R(0)>>
    /\ ToStops = <<R(0)>>
    /\ PositiveRanges
    /\ MapArg = R(1000)
    /\ IsNumber(MapResult)

(***************************************************************************)
(* C19, C20.                                                               *)
(***************************************************************************)
\* a pane holds the lock and its window is not over
LockUnexpired == syncLockRef \in Panes /\ now <= syncLockUntilRef

\* C19: the lock has at most one holder; the holder changes from one pane to
\* the other only in a step taken after the previous holder's window is over;
\* and while the window is not over, a step that is not the passing of time
\* changes the lock only by giving the same holder a new window: 260 ms by an
\* accepted scroll event of the holder, 360 ms by a snap firing of the holder.
C19_LockExclusivity ==
    [][/\ syncLockRef \in Panes \cup {"none"}
       /\ (syncLockRef \in Panes /\ syncLockRef' = Other(syncLockRef))
          => now > syncLockUntilRef
       /\ (LockUnexpired /\ ~Tick
             /\ <<syncLockRef, syncLockUntilRef>>' # <<syncLockRef, syncLockUntilRef>>)
          => /\ syncLockRef' = syncLockRef
             /\ \/ /\ ScrollStep(syncLockRef)
                   /\ syncLockUntilRef' = now + ScrollLockMs
                \/ /\ SnapFire
                   /\ lastOp'.who = syncLockRef
                   /\ syncLockUntilRef' = now + SnapLockMs]_vars

\* the snap timer of the holder has fired within the holder's window and has
\* given it a window of 360 ms; the other pane has a scroll event to come
C19_Witness ==
    /\ lastOp = Op("snapFire", "source", "started")
    /\ syncLockRef = "source"
    /\ syncLockUntilRef = now + SnapLockMs
    /\ snapAnimRef["editor"] # NoId

\* a source-driven replace has been issued and the microtask that ends it
\* has not run yet
ReplaceInFlight == \E i \in 1..Len(microtasks) : microtasks[i] = "clearApplying"

\* C20: the suppressing-echo flag is true exactly while a source-driven
\* replace is in flight, that is from the timer callback that issues the
\* replace until the next microtask, and nothing else runs in between; the
\* notification the replace delivers before it returns is never adopted,
\* whatever its text; a notification delivered after that microtask whose
\* text differs from the tracked text is adopted at once.
C20_SuppressionFlagLifetime ==
    /\ [](applyingFromSourceRef <=> ReplaceInFlight)
    /\ [][/\ (DebounceFire /\ editorReady)
             => /\ ~applyingFromSourceRef
                /\ applyingFromSourceRef'
                /\ lastMarkdownFromEditorRef' = engineDoc'
                /\ markdown' = markdown
                /\ markdownRef' = markdownRef
          /\ applyingFromSourceRef
             => /\ Microtask
                /\ ~applyingFromSourceRef'
          /\ \A d \in Docs :
                (EngineEdit(d) /\ d # markdownRef)
                => /\ ~applyingFromSourceRef
                   /\ markdown' = d
                   /\ markdownRef' = d]_vars

\* a replace is in flight whose notification carried a text other than the
\* tracked one, and the tracked text has stayed
C20_Witness ==
    /\ lastOp = Op("debounceFire", "-", "replaced")
    /\ applyingFromSourceRef
    /\ ReplaceInFlight
    /\ lastMarkdownFromEditorRef = engineDoc
    /\ lastMarkdownFromEditorRef # markdownRef

(***************************************************************************)
(* C21.                                                                    *)
(***************************************************************************)
\* nothing of the scroll controller is pending, scheduled or running
ScrollQuiescent ==
    /\ pendingScrollsRef = NoPending
    /\ syncRafRef = NoId
    /\ \A i \in 1..Len(rafQueue) : rafQueue[i].kind \notin {"sync", "anim"}
    /\ \A t \in timers : t.kind # "snap"
    /\ \A p \in Panes : echo[p] = NoEcho

\* C21: after the user's one scroll event, and with scroll events of
\* programmatic writes that may arrive after the lock has expired, the
\* controller comes to rest: from some point on nothing is pending, scheduled
\* or running and no pane is written again.
C21_NoPingPong ==
    /\ <>[]ScrollQuiescent
    /\ [][(ScrollQuiescent /\ inputs > 0) => scrollTop' = scrollTop]_vars

\* a scroll event of a programmatic write has arrived after the lock window
\* was over and has been accepted
C21_Witness ==
    /\ inputs = 1
    /\ lastOp.op = "scroll"
    /\ lastOp.res = "acceptedExpired"
    /\ pendingScrollsRef # NoPending

(***************************************************************************)
(* C22.                                                                    *)
(***************************************************************************)
\* the target of pane p in the buffer, clamped to p's current scroll range
ClampedPending(p) == clamp(pendingScrollsRef[p][1], R(0), R(scrollMax[p]))

\* C22: a pass of the coalescing frame callback leaves every pane that has a
\* pending target within 0.5 px of that target clamped to [0, the pane's
\* current max], changes the pane's position only if it was more than 0.5 px
\* away from the clamped target, and leaves a pane without a pending target
\* where it was.
C22_FrameWritePass ==
    [][SyncFrame =>
         \A p \in Panes :
            IF pendingScrollsRef[p] = <<>>
            THEN scrollTop'[p] = scrollTop[p]
            ELSE /\ RLe(RAbs(RSub(scrollTop'[p], ClampedPending(p))), Half)
                 /\ scrollTop'[p] # scrollTop[p]
                       => RLt(Half, RAbs(RSub(scrollTop[p], ClampedPending(p))))
                 /\ RLe(RAbs(RSub(scrollTop[p], ClampedPending(p))), Half)
                       => scrollTop'[p] = scrollTop[p]]_vars

\* the frame callback has run and has written a pane
C22_Witness == lastOp = Op("syncFrame", "-", "wrote")

(***************************************************************************)
(* C23.                                                                    *)
(***************************************************************************)
SnapTimers(ts, p) == { t \in ts : t.kind = "snap" /\ t.who = p }

\* the step is a scroll event of pane p that the handler accepts
AcceptedScroll(p) ==
    /\ ScrollStep(p)
    /\ lastOp'.res \in {"accepted", "acceptedExpired"}

\* the animation frames of pane p
AnimFrames(q, p) ==
    { i \in 1..Len(q) : q[i].kind = "anim" /\ q[i].who = p }

\* C23: in the snap variant a pane has at most one idle snap timer pending,
\* the one its slot names; an accepted scroll event of pane P leaves exactly
\* one timer for P, due 120 ms later, and no other step creates or postpones
\* a timer of P, so that a snap of P fires no sooner than 120 ms after P's
\* last accepted scroll event; a firing snap of P does nothing but take its
\* timer away while the other pane holds an unexpired lock, and otherwise
\* gives P the lock for 360 ms and eases the other pane to the mapped target.
C23_SnapIdleTimer ==
    /\ [](\A p \in Panes :
             /\ Cardinality(SnapTimers(timers, p)) <= 1
             /\ \A t \in SnapTimers(timers, p) : t.id = snapTimerRef[p])
    /\ [][\A p \in Panes :
            /\ (AcceptedScroll(p) /\ variant = "snap")
                 => \E t \in timers' :
                       /\ SnapTimers(timers', p) = {t}
                       /\ t.at = now + SnapIdleMs
                       /\ t \notin timers
            /\ ~AcceptedScroll(p)
                 => \A t1 \in SnapTimers(timers', p) :
                       \E t0 \in SnapTimers(timers, p) :
                          t0.id = t1.id /\ t1.at <= t0.at
            /\ (SnapFire /\ lastOp'.who = p)
                 => /\ \E t \in SnapTimers(timers, p) :
                          now >= t.at /\ timers' = timers \ {t}
                    /\ HeldAgainst(p)
                          => UNCHANGED <<scrollTop, rafQueue, syncLockRef,
                                         syncLockUntilRef, snapAnimRef,
                                         pendingScrollsRef>>
                    /\ ~HeldAgainst(p)
                          => LET o == Other(p)
                                 to == clamp(MappedTarget(p, scrollTop), R(0),
                                             R(scrollMax[o]))
                             IN  /\ syncLockRef' = p
                                 /\ syncLockUntilRef' = now + SnapLockMs
                                 /\ scrollTop' = scrollTop
                                 /\ IF RLt(RAbs(RSub(to, scrollTop[o])), Half)
                                    THEN AnimFrames(rafQueue', o) = {}
                                    ELSE \E i \in AnimFrames(rafQueue', o) :
                                            /\ AnimFrames(rafQueue', o) = {i}
                                            /\ RAdd(rafQueue'[i].start,
                                                    rafQueue'[i].delta) = to
                                            /\ rafQueue'[i].startAt = now
                                            /\ rafQueue'[i].dur
                                                 = SnapDurationMs]_vars

\* a snap of the editor pane has fired while no lock was held against it and
\* has started easing the source pane
C23_Witness ==
    /\ lastOp = Op("snapFire", "editor", "started")
    /\ syncLockRef = "editor"
    /\ syncLockUntilRef = now + SnapLockMs
    /\ AnimFrames(rafQueue, "source") # {}

(***************************************************************************)
(* C24.                                                                    *)
(***************************************************************************)
\* C24: a pane has at most one ease animation step requested at any time,
\* the one its slot names; a snap that starts easing a pane leaves only the
\* new animation's step requested for that pane, whatever was requested before;
\* an animation step writes only its own pane, and the step that reaches
\* progress 1 requests no further step, so that neither a cancelled nor a
\* finished animation writes the pane again.
C24_SingleEaseAnimation ==
    /\ [](\A p \in Panes :
             /\ Cardinality(AnimFrames(rafQueue, p)) <= 1
             /\ \A i \in AnimFrames(rafQueue, p) :
                   rafQueue[i].id = snapAnimRef[p])
    /\ [][/\ (SnapFire /\ lastOp'.res = "started")
              => \A j \in AnimFrames(rafQueue', Other(lastOp'.who)) :
                    /\ rafQueue'[j].startAt = now
                    /\ rafQueue'[j].start = scrollTop[Other(lastOp'.who)]
          /\ AnimStep
              => LET a == Head(rafQueue)
                 IN  /\ a.id = snapAnimRef[a.who]
                     /\ scrollTop'[Other(a.who)] = scrollTop[Other(a.who)]
                     /\ IF now - a.startAt >= a.dur
                        THEN /\ AnimFrames(rafQueue', a.who) = {}
                             /\ scrollTop'[a.who]
                                  = SetScrollTop(RAdd(a.start, a.delta),
                                                 scrollMax[a.who])
                        ELSE Cardinality(AnimFrames(rafQueue', a.who)) = 1
          /\ (scrollTop' # scrollTop /\ lastOp'.op \in {"snapFire", "tick"})
              => FALSE]_vars

\* an ease animation of the editor pane has reached progress 1 and has
\* requested no further step
C24_Witness ==
    /\ lastOp = Op("animStep", "editor", "done")
    /\ AnimFrames(rafQueue, "editor") = {}

(***************************************************************************)
(* C25.                                                                    *)
(***************************************************************************)
RecomputeCallbacks(q) == { i \in 1..Len(q) : q[i].kind = "recompute" }

\* the step just taken called scheduleRecomputeStops
RecomputeTriggered ==
    \/ lastOp'.op \in {"sourceChange", "engineEdit", "resize"}
    \/ lastOp' = Op("debounceFire", "-", "replaced")
    \/ lastOp' = Op("microtask", "-", "recompute")

\* C25: at most one recompute frame callback is requested at any time, and
\* recomputeRafRef names it exactly while it is requested; a trigger (a
\* document change, an engine notification, a resize, a debounce firing)
\* that finds a callback requested leaves it as the only one, and a trigger
\* that finds none requests one; the stops change only when the callback
\* runs, and its run leaves no callback requested.
C25_RecomputeCoalescing ==
    /\ [](/\ Cardinality(RecomputeCallbacks(rafQueue)) <= 1
          /\ (recomputeRafRef # NoId) <=> (RecomputeCallbacks(rafQueue) # {})
          /\ \A i \in RecomputeCallbacks(rafQueue) :
                rafQueue[i].id = recomputeRafRef)
    /\ [][/\ RecomputeTriggered
              => /\ Cardinality(RecomputeCallbacks(rafQueue')) = 1
                 /\ RecomputeCallbacks(rafQueue) # {}
                      => recomputeRafRef' = recomputeRafRef
          /\ lastOp'.op = "recomputeFrame"
              => /\ RecomputeCallbacks(rafQueue) # {}
                 /\ RecomputeCallbacks(rafQueue') = {}
                 /\ recomputeRafRef' = NoId
          /\ stopsRef' # stopsRef => lastOp'.op = "recomputeFrame"]_vars

\* a resize has called scheduleRecomputeStops while the callback requested
\* a tick earlier had not run yet
C25_Witness ==
    /\ lastOp.op = "resize"
    /\ \E i \in RecomputeCallbacks(rafQueue) : rafQueue[i].age > 0

(***************************************************************************)
(* C26.                                                                    *)
(***************************************************************************)
\* the nodes that supply the rendered anchors when the queries of the nodes
\* in failed fail: the headings that answered if there are two or more,
\* else every top-level node that answered
AnchorNodes(failed) ==
    LET kinds == NodeKinds(engineDoc)
        ok == { k \in 1..Len(kinds) : k \notin failed }
        okHeadings == { k \in ok : kinds[k] = "heading" }
    IN  IF Cardinality(okHeadings) >= 2 THEN okHeadings ELSE ok

\* the anchor of node k under the layout tops
AnchorOf(k, tops) == clamp(tops[k], R(0), R(scrollMax.editor))

\* the rendered stops s of a pass in which the nodes of failed failed: every
\* stop is 0, max or the anchor of a node that answered, and every such
\* anchor is within 0.5 px of a stop
Tolerates(s, failed, tops) ==
    /\ \A i \in 1..Len(s) :
          \/ s[i] = R(0)
          \/ s[i] = R(scrollMax.editor)
          \/ \E k \in AnchorNodes(failed) : s[i] = AnchorOf(k, tops)
    /\ \A k \in AnchorNodes(failed) :
          \E i \in 1..Len(s) : RLe(RAbs(RSub(s[i], AnchorOf(k, tops))), Half)

\* C26 as stated: whatever subset of the nodes fails its coordinate query, the
\* pass runs to its end and publishes rendered stops without the anchors of
\* the failed nodes and with the anchor of every node that answered (up to
\* deduplication within 0.5 px), sorted, beginning at 0 and ending at max.
C26_FailureTolerance ==
    JustComputed =>
        \A failed \in NodeSubsets(engineDoc) : \A tops \in Layouts :
            stopsRef.editorStops
               = EditorStopsAt(engineDoc, R(scrollMax.editor), failed, tops)
            => /\ Tolerates(stopsRef.editorStops, failed, tops)
               /\ NonDecreasing(stopsRef.editorStops)
               /\ Bracketed(stopsRef.editorStops, R(scrollMax.editor))

\* C26 amended: as stated, except that the rendered stops end within 0.5 px
\* below max rather than at max (deduplication drops max when an anchor lies
\* within 0.5 px below it), the nodes that count being the headings that
\* answered if two or more did and every top-level node that answered
\* otherwise.
C26_FailureToleranceNearMax ==
    JustComputed =>
        \A failed \in NodeSubsets(engineDoc) : \A tops \in Layouts :
            stopsRef.editorStops
               = EditorStopsAt(engineDoc, R(scrollMax.editor), failed, tops)
            => /\ Tolerates(stopsRef.editorStops, failed, tops)
               /\ NonDecreasing(stopsRef.editorStops)
               /\ NearBracketed(stopsRef.editorStops, R(scrollMax.editor))

\* a pass over the document with two headings and a paragraph has published
\* the stops of the paragraph tier: the query of a heading failed
C26_Witness ==
    /\ JustComputed
    /\ engineDoc = <<"H", "B", "H", "B", "T">>
    /\ scrollMax.editor = 100
    /\ stopsRef.editorStops = <<R(0), R(100)>>

(***************************************************************************)
(* C27.                                                                    *)
(***************************************************************************)
\* C27: whenever the buffer holds a pending write, the coalescing frame
\* callback is requested and syncRafRef names it; a run of the callback
\* leaves the buffer empty; and the buffer changes otherwise only in an
\* accepted scroll event.
C27_NoStrandedWrite ==
    /\ [](pendingScrollsRef # NoPending
            => /\ syncRafRef # NoId
               /\ \E i \in SyncCallbacks : rafQueue[i].id = syncRafRef)
    /\ [][/\ lastOp'.op = "syncFrame" => pendingScrollsRef' = NoPending
          /\ (pendingScrollsRef' # pendingScrollsRef
                /\ lastOp'.op # "syncFrame")
              => \E p \in Panes : AcceptedScroll(p)]_vars

\* a pending write is waiting for a frame callback that is a tick late
C27_Witness ==
    /\ pendingScrollsRef # NoPending
    /\ \E i \in SyncCallbacks : rafQueue[i].age > 0

(***************************************************************************)
(* C28.                                                                    *)
(***************************************************************************)
\* C28: at most one debounce timer is pending at any time, the one the
\* effect's closure holds, and it carries the tracked document text; a step
\* that changes the tracked text, typed or adopted from the engine, leaves no
\* timer set before it; and a firing timer that issues a replace hands the
\* engine the tracked document text of that moment.
C28_ReplaceCarriesCurrentText ==
    /\ [](/\ Cardinality(DebounceTimers(timers)) <= 1
          /\ \A t \in DebounceTimers(timers) :
                t.id = debounceTimer /\ t.text = markdown)
    /\ [][/\ markdown' # markdown
              => \A t \in DebounceTimers(timers') :
                    t.at = now + DebounceMs /\ t.text = markdown'
          /\ lastOp' = Op("debounceFire", "-", "replaced")
              => /\ \E t \in DebounceTimers(timers) :
                       now >= t.at /\ t.text = markdown
                 /\ engineDoc' = Serialize(markdown)
                 /\ burst'.text = markdown]_vars

\* a replace has been issued after the text changed twice, carrying the
\* second text
C28_Witness ==
    /\ lastOp = Op("debounceFire", "-", "replaced")
    /\ burst.n >= 2
    /\ burst.text = markdown
    /\ engineDoc = Serialize(markdown)

====
